---- MODULE Spec2Model ----
(***************************************************************************)
(* Model of secrets.h of the esp-relay firmware: two namespace-scope       *)
(* `const String` objects (ADMIN_PHONE, SECRET_COMMAND) that are           *)
(* constructed from string literals during static initialization, and four *)
(* object-like macros (LOCAL_SSID, LOCAL_PASS, AP_SSID, AP_PASS) that      *)
(* expand to string literals.  The consumers of the header (network        *)
(* bring-up, command authorization, generic readers) are not part of       *)
(* secrets.h; they are modelled from the specification.                    *)
(*                                                                         *)
(* A string is a sequence of one-character strings.  A C string literal is *)
(* that sequence followed by the terminator NUL.                           *)
(***************************************************************************)
EXTENDS Naturals, Sequences, FiniteSets

VARIABLES
    header,     \* the six values as written in secrets.h (the build's input)
    phase,      \* "static_init" -> "setup" -> "loop"
    obj,        \* the two String objects: [constructed, buf]
    pc,         \* per reader: "idle" or the name of the constant being read
    reads,      \* per constant: every value a completed read has returned
    sta,        \* station configuration handed to the Wi-Fi driver
    ap,         \* access-point configuration handed to the Wi-Fi driver
    last        \* outcome of the latest check made against a constant:
                \* [kind |-> "auth", caller, ok] or [kind |-> "join", pass, accepted]

vars == <<header, phase, obj, pc, reads, sta, ap, last>>

----------------------------------------------------------------------------
(* Bounds *)

NReaders == 2
MaxLen == 2

Readers == 1..NReaders

----------------------------------------------------------------------------
(* The declarations of secrets.h *)

ADMIN_PHONE_NoPlus ==
    <<"3","8","1","6","0","1","2","3","4","5","6","7","8","9">>

ADMIN_PHONE_Spaced ==
    <<"+","3","8","1"," ","6","0"," ","1","2","3","4","5","6","7","8","9">>

ADMIN_PHONE ==
    <<"+","3","8","1","6","0","1","2","3","4","5","6","7","8","9">>

SECRET_COMMAND_Spaced ==
    <<"o","p","e","n"," ","r","e","l","a","y">>

SECRET_COMMAND ==
    <<"o","p","e","n","r","e","l","a","y">>

LOCAL_SSID ==
    <<"M","y","W","i","F","i","N","e","t","w","o","r","k">>

LOCAL_PASS_Empty ==
    <<>>

LOCAL_PASS ==
    <<"p","a","s","s","w","o","r","d","1","2","3","4">>

AP_SSID_Renamed ==
    <<"E","S","P","8","2","6","6","-","A","P">>

AP_SSID ==
    <<"E","S","P","8","2","6","6","-","A","c","c","e","s","s","-","P","o","i","n","t">>

AP_PASS_Short ==
    <<"1","2","3","4","5","6","7">>

AP_PASS ==
    <<"1","2","3","4","5","6","7","8","9">>

StringObjects == {"ADMIN_PHONE", "SECRET_COMMAND"}
Macros == {"LOCAL_SSID", "LOCAL_PASS", "AP_SSID", "AP_PASS"}
Names == StringObjects \cup Macros

\* Declaration order in the header.
Order ==
    <<"ADMIN_PHONE", "SECRET_COMMAND", "LOCAL_SSID", "LOCAL_PASS", "AP_SSID", "AP_PASS">>

Declared ==
    [k \in Names |->
        CASE k = "ADMIN_PHONE"    -> ADMIN_PHONE
          [] k = "SECRET_COMMAND" -> SECRET_COMMAND
          [] k = "LOCAL_SSID"     -> LOCAL_SSID
          [] k = "LOCAL_PASS"     -> LOCAL_PASS
          [] k = "AP_SSID"        -> AP_SSID
          [] k = "AP_PASS"        -> AP_PASS]

----------------------------------------------------------------------------
(* C strings and the String constructor *)

NUL == ""

\* The array a string literal denotes: its characters and the terminator.
CLiteral(s) == s \o <<NUL>>

RECURSIVE StrLenFrom(_, _)
StrLenFrom(buf, i) ==
    IF i > Len(buf) \/ buf[i] = NUL THEN i - 1 ELSE StrLenFrom(buf, i + 1)

\* strlen: the number of characters before the first terminator.
StrLen(buf) == StrLenFrom(buf, 1)

\* The characters of a NUL-terminated array, as a consumer sees them.
CStrValue(buf) == SubSeq(buf, 1, StrLen(buf))

StringCtor_OffByOne(cstr) == SubSeq(cstr, 1, StrLen(cstr) - 1)

\* String(const char *cstr): copies strlen(cstr) characters of cstr.
StringCtor(cstr) == SubSeq(cstr, 1, StrLen(cstr))

\* A String object with static storage before its constructor has run.
ZeroString == [constructed |-> FALSE, buf |-> <<>>]

Expand_PassIsSsid(k) ==
    CLiteral(header[IF k = "AP_PASS" THEN "AP_SSID"
                    ELSE IF k = "LOCAL_PASS" THEN "LOCAL_SSID" ELSE k])

\* The literal a use of the name k stands for.
Expand(k) == CLiteral(header[k])

ReadValue_SharedBuffer(k) ==
    IF \E r \in Readers : pc[r] \notin {"idle", k}
      THEN <<>>
      ELSE IF k \in StringObjects THEN obj[k].buf ELSE CStrValue(Expand(k))

\* What a read of the constant k yields.
ReadValue(k) ==
    IF k \in StringObjects THEN obj[k].buf ELSE CStrValue(Expand(k))

Constructed(k) == k \in Macros \/ obj[k].constructed

StaticInitDone_FirstOnly == obj["ADMIN_PHONE"].constructed

\* Both dynamic initializers of the header have run.
StaticInitDone == \A k \in StringObjects : obj[k].constructed

----------------------------------------------------------------------------
(* Consumers of the header *)

\* String::equals: same length and the same characters.
StringEquals(a, b) ==
    /\ Len(a) = Len(b)
    /\ \A i \in 1..Len(a) : a[i] = b[i]

\* Command authorization: the caller's number against ADMIN_PHONE.
Authorize(caller) == StringEquals(caller, ReadValue("ADMIN_PHONE"))

\* Station bring-up: the credentials handed to the driver.
WiFiBegin(ssid, pass) == [configured |-> TRUE, ssid |-> ssid, pass |-> pass]

\* Access-point bring-up: refused for an SSID of length 0 or above 32 and for
\* a non-empty passphrase outside 8..63; open for an empty passphrase.
SoftAP(ssid, pass) ==
    IF Len(ssid) = 0 \/ Len(ssid) > 32
      THEN [started |-> FALSE, ssid |-> <<>>, secured |-> FALSE, pass |-> <<>>]
    ELSE IF Len(pass) > 0 /\ (Len(pass) < 8 \/ Len(pass) > 63)
      THEN [started |-> FALSE, ssid |-> <<>>, secured |-> FALSE, pass |-> <<>>]
    ELSE [started |-> TRUE, ssid |-> ssid, secured |-> Len(pass) > 0, pass |-> pass]

\* The access point admits a station: any passphrase on an open network,
\* exactly the configured one on a secured network.
Admits(pass) == ap.started /\ (~ap.secured \/ StringEquals(pass, ap.pass))

\* Caller numbers of inbound messages.
Callers ==
    { <<"+","3","8","1","6","0","1","2","3","4","5","6","7","8","9">>,
      <<"3","8","1","6","0","1","2","3","4","5","6","7","8","9">>,
      <<"0","0","3","8","1","6","0","1","2","3","4","5","6","7","8","9">>,
      <<"+","3","8","1","6","0","1","2","3","4","5","6","7","8","9","0">>,
      <<"+","3","8","1","6","0","1","2","3","4","5","6","7","8">> }

\* Passphrases stations try against the access point.
TriedPasses ==
    { <<"1","2","3","4","5","6","7","8","9">>,
      <<"1","2","3","4","5","6","7","8">>,
      <<"1","2","3","4","5","6","7","8","9","0">>,
      <<>> }

None == [kind |-> "none"]

----------------------------------------------------------------------------
(* Values a build may be configured with *)

\* The strings of length at most MaxLen made of "a"s, and those ending in "b".
RECURSIVE Pad(_)
Pad(n) == IF n = 0 THEN <<>> ELSE <<"a">> \o Pad(n - 1)

BuildStrings ==
    {Pad(n) : n \in 0..MaxLen} \cup {Pad(n) \o <<"b">> : n \in 0..(MaxLen - 1)}

----------------------------------------------------------------------------
(* Initial states *)

InitRest ==
    /\ phase = "static_init"
    /\ obj = [k \in StringObjects |-> ZeroString]
    /\ pc = [r \in Readers |-> "idle"]
    /\ reads = [k \in Names |-> {}]
    /\ sta = [configured |-> FALSE, ssid |-> <<>>, pass |-> <<>>]
    /\ ap = [started |-> FALSE, ssid |-> <<>>, secured |-> FALSE, pass |-> <<>>]
    /\ last = None

\* The firmware built from secrets.h as it stands.
Init ==
    /\ header = Declared
    /\ InitRest

\* The firmware rebuilt with modified values.
InitBuild ==
    /\ header \in [Names -> BuildStrings]
    /\ InitRest

----------------------------------------------------------------------------
(* Static initialization, in declaration order *)

ConstructAdminPhone ==
    /\ phase = "static_init"
    /\ ~obj["ADMIN_PHONE"].constructed
    /\ obj' = [obj EXCEPT !["ADMIN_PHONE"] =
                  [constructed |-> TRUE, buf |-> StringCtor(Expand("ADMIN_PHONE"))]]
    /\ UNCHANGED <<header, phase, pc, reads, sta, ap, last>>

ConstructSecretCommand ==
    /\ phase = "static_init"
    /\ obj["ADMIN_PHONE"].constructed
    /\ ~obj["SECRET_COMMAND"].constructed
    /\ obj' = [obj EXCEPT !["SECRET_COMMAND"] =
                  [constructed |-> TRUE, buf |-> StringCtor(Expand("SECRET_COMMAND"))]]
    /\ UNCHANGED <<header, phase, pc, reads, sta, ap, last>>

\* Control reaches setup() once static initialization is over.
EnterSetup ==
    /\ phase = "static_init"
    /\ StaticInitDone
    /\ phase' = "setup"
    /\ UNCHANGED <<header, obj, pc, reads, sta, ap, last>>

----------------------------------------------------------------------------
(* Consumers *)

\* Network bring-up: station mode, then access-point mode.
NetworkBringUp ==
    /\ phase = "setup"
    /\ sta' = WiFiBegin(ReadValue("LOCAL_SSID"), ReadValue("LOCAL_PASS"))
    /\ ap' = SoftAP(ReadValue("AP_SSID"), ReadValue("AP_PASS"))
    /\ phase' = "loop"
    /\ UNCHANGED <<header, obj, pc, reads, last>>

\* An inbound control message from `caller` is checked.
CommandAuthorization(caller) ==
    /\ phase = "loop"
    /\ last' = [kind |-> "auth", caller |-> caller, ok |-> Authorize(caller)]
    /\ UNCHANGED <<header, phase, obj, pc, reads, sta, ap>>

\* A station tries to join the access point with `pass`.
StationJoin(pass) ==
    /\ phase = "loop"
    /\ ap.started
    /\ last' = [kind |-> "join", pass |-> pass, accepted |-> Admits(pass)]
    /\ UNCHANGED <<header, phase, obj, pc, reads, sta, ap>>

\* A consuming module starts reading the constant k ...
BeginRead(r, k) ==
    /\ phase # "static_init"
    /\ pc[r] = "idle"
    /\ pc' = [pc EXCEPT ![r] = k]
    /\ UNCHANGED <<header, phase, obj, reads, sta, ap, last>>

\* ... and completes the read, with no synchronization in between.
FinishRead(r) ==
    /\ pc[r] # "idle"
    /\ reads' = [reads EXCEPT ![pc[r]] = @ \cup {ReadValue(pc[r])}]
    /\ pc' = [pc EXCEPT ![r] = "idle"]
    /\ UNCHANGED <<header, phase, obj, sta, ap, last>>

\* Reading the constants back one after the other, in declaration order.
ReadBack(i) ==
    /\ phase = "setup"
    /\ \A j \in 1..(i - 1) : reads[Order[j]] # {}
    /\ reads[Order[i]] = {}
    /\ reads' = [reads EXCEPT ![Order[i]] = {ReadValue(Order[i])}]
    /\ UNCHANGED <<header, phase, obj, pc, sta, ap, last>>

----------------------------------------------------------------------------
(* Specifications *)

Next ==
    \/ ConstructAdminPhone
    \/ ConstructSecretCommand
    \/ EnterSetup
    \/ NetworkBringUp
    \/ \E c \in Callers : CommandAuthorization(c)
    \/ \E p \in TriedPasses : StationJoin(p)
    \/ \E r \in Readers, k \in Names : BeginRead(r, k)
    \/ \E r \in Readers : FinishRead(r)

Spec == Init /\ [][Next]_vars

NextBuild ==
    \/ ConstructAdminPhone
    \/ ConstructSecretCommand
    \/ EnterSetup
    \/ \E i \in 1..Len(Order) : ReadBack(i)

SpecBuild == InitBuild /\ [][NextBuild]_vars

----------------------------------------------------------------------------
(* Properties *)

ScenarioAdminPhone ==
    <<"+","3","8","1","6","0","1","2","3","4","5","6","7","8","9">>

ScenarioApSsid ==
    <<"E","S","P","8","2","6","6","-","A","c","c","e","s","s","-","P","o","i","n","t">>

ScenarioApPass ==
    <<"1","2","3","4","5","6","7","8","9">>

Digits == {"0","1","2","3","4","5","6","7","8","9"}

Whitespace == {" ", "\t", "\r", "\n"}

IsPhoneNumber(s) ==
    /\ Len(s) >= 2
    /\ s[1] = "+"
    /\ \A i \in 2..Len(s) : s[i] \in Digits

NoWhitespace(s) == \A i \in 1..Len(s) : s[i] \notin Whitespace

C2_NonEmpty ==
    \A k \in Names :
        /\ Len(header[k]) >= 1
        /\ Constructed(k) => Len(ReadValue(k)) >= 1

C2_Witness ==
    /\ phase = "setup"
    /\ StaticInitDone
    /\ \A k \in Names : Len(ReadValue(k)) >= 1

\* C3: the authorization check succeeds for the caller "+38160123456789" and
\* fails for every other caller (no "+", an added prefix, an added suffix, a
\* truncated number), both as recorded by the last check and for every caller
\* that could be checked next.
C3_AuthorizesExactlyAdmin ==
    /\ last.kind = "auth" => (last.ok <=> last.caller = ScenarioAdminPhone)
    /\ phase = "loop" =>
          \A c \in Callers : Authorize(c) <=> c = ScenarioAdminPhone

C3_Witness ==
    /\ last.kind = "auth"
    /\ last.caller = Tail(ScenarioAdminPhone)
    /\ ~last.ok
    /\ Authorize(ScenarioAdminPhone)

C6_AccessPointCredentials ==
    /\ phase = "loop" =>
          /\ ap.started
          /\ ap.ssid = ScenarioApSsid
          /\ \A p \in TriedPasses : Admits(p) <=> p = ScenarioApPass
    /\ last.kind = "join" => (last.accepted <=> last.pass = ScenarioApPass)

C6_Witness ==
    /\ last.kind = "join"
    /\ last.pass = ScenarioApPass
    /\ last.accepted
    /\ ~Admits(<<"1","2","3","4","5","6","7","8">>)
    /\ ~Admits(<<>>)

C8_AdminPhoneFormat ==
    /\ IsPhoneNumber(header["ADMIN_PHONE"])
    /\ Constructed("ADMIN_PHONE") => IsPhoneNumber(ReadValue("ADMIN_PHONE"))

C8_Witness ==
    /\ obj["ADMIN_PHONE"].constructed
    /\ ~obj["SECRET_COMMAND"].constructed
    /\ Len(ReadValue("ADMIN_PHONE")) = 15

\* C9: SECRET_COMMAND contains no space, tab, carriage return or newline.
C9_SecretCommandNoWhitespace ==
    /\ NoWhitespace(header["SECRET_COMMAND"])
    /\ Constructed("SECRET_COMMAND") => NoWhitespace(ReadValue("SECRET_COMMAND"))

C9_Witness ==
    /\ phase = "loop"
    /\ reads["SECRET_COMMAND"] # {}
    /\ Len(ReadValue("SECRET_COMMAND")) = 9

\* C10: both SSIDs have at most 32 characters and both passphrases between 8
\* and 63, so that after network bring-up the station is configured and the
\* access point is started and secured by its passphrase.
C10_WifiCredentialLimits ==
    /\ \A k \in {"LOCAL_SSID", "AP_SSID"} : Len(ReadValue(k)) <= 32
    /\ \A k \in {"LOCAL_PASS", "AP_PASS"} :
          Len(ReadValue(k)) >= 8 /\ Len(ReadValue(k)) <= 63
    /\ phase = "loop" =>
          /\ sta.configured
          /\ ap.started /\ ap.secured
          /\ Len(ap.pass) >= 8 /\ Len(ap.pass) <= 63

C10_Witness ==
    /\ phase = "loop"
    /\ ap.started /\ ap.secured
    /\ ap.pass = ReadValue("AP_PASS")
    /\ last = None

====
